---- MODULE Spec2Model ----
(***************************************************************************)
(* publishctl (src/bin/publishctl.py): the apply command that converges    *)
(* one application manifest onto the host, step by step, with the host     *)
(* state it touches: the working directory, the generated files, and the   *)
(* process-manager / proxy / container-runtime state.                      *)
(***************************************************************************)
EXTENDS Integers, Sequences, FiniteSets, TLC

\* ------------------------------------------------------------------ bounds
\* number of apply invocations run one after the other on the same manifest
MaxApplies == 2
\* length of the longest deploy.preinstall list a manifest carries
MaxSteps == 2
\* number of files in the applications directory status reports on
MaxFiles == 2

\* --------------------------------------------------------------- constants
\* m.get('backend', {}).get('port', 8000)
DefaultPort == 8000
\* m.get('backend', {}).get('host', '127.0.0.1'), as a sequence of characters
DefaultHost == <<"1", "2", "7", ".", "0", ".", "0", ".", "1">>
\* m.get('flutter', {}).get('document_root', '/var/www/html')
DefaultDocroot == "/var/www/html"
\* write_file(path, content, mode=0o644)
DefaultMode == "0o644"
\* the mode of a file that write_text has just created (the process umask's)
UmaskMode == "umask"
\* raise typer.Exit(2)
UnsupportedExit == 2
\* exit status of the interpreter when an exception leaves app()
ExceptionExit == 1

\* host and port a manifest author may have put under backend
AuthorHost == <<"b", "e">>
AuthorPort == 8501

\* ------------------------------------------------------------ the manifest
Kinds == {"fastapi", "streamlit", "flutter", "docker", "unknown-kind"}

\* docker.publish.http_target values, as sequences of characters
Endpoints ==
    { <<"h", ":", "9", "0">>,        \* host:port
      <<"h", "9">>,                  \* no separator
      <<"h", ":", "x">>,             \* port is not a number
      <<"h", ":", "9", ":", "0">> }  \* two separators

\* the backend section: absent, or present with some of its keys
Backends ==
    { [present |-> FALSE, has_wd |-> FALSE, has_hp |-> FALSE, host |-> <<>>, port |-> 0],
      [present |-> TRUE,  has_wd |-> TRUE,  has_hp |-> FALSE, host |-> <<>>, port |-> 0],
      [present |-> TRUE,  has_wd |-> TRUE,  has_hp |-> TRUE,  host |-> AuthorHost, port |-> AuthorPort],
      [present |-> TRUE,  has_wd |-> FALSE, has_hp |-> TRUE,  host |-> AuthorHost, port |-> AuthorPort] }

\* deploy.preinstall: the list of the first n commands, each named by its rank
Preinstall(n) == [k \in 1..n |-> ToString(k)]

\* the docker section: absent, or present with its publish.http_target
Dockers ==
    { [present |-> FALSE, http_target |-> <<>>] }
    \cup { [present |-> TRUE, http_target |-> e] : e \in Endpoints }

AllManifests ==
    [ kind : Kinds,
      apache : BOOLEAN,
      backend : Backends,
      service : BOOLEAN,
      flutter : BOOLEAN,
      docker : Dockers,
      scm : BOOLEAN,
      preinstall : { Preinstall(n) : n \in 0..MaxSteps },
      ssl : BOOLEAN,
      healthcheck : BOOLEAN ]

\* The sections apply never reads for a kind are left out of its manifests.
Manifests ==
    { x \in AllManifests :
        /\ (x.service => x.kind \in {"fastapi", "streamlit"})
        /\ (x.flutter => x.kind = "flutter")
        /\ (x.docker.present => x.kind = "docker")
        /\ (x.backend.present => x.kind \in {"fastapi", "streamlit", "docker"})
        /\ (x.preinstall # <<>> => x.kind \in {"fastapi", "streamlit", "docker"})
        /\ (x.apache => x.kind # "unknown-kind") }


\* ------------------------------------------------------- pure conversions
\* str.split(sep) on a sequence of characters: the list of the parts
RECURSIVE Split(_, _)
Split(s, sep) ==
    IF s = <<>> THEN << <<>> >>
    ELSE LET rest == Split(Tail(s), sep)
         IN IF Head(s) = sep
            THEN << <<>> >> \o rest
            ELSE << <<Head(s)>> \o Head(rest) >> \o Tail(rest)

DigitChars == <<"0", "1", "2", "3", "4", "5", "6", "7", "8", "9">>
IsDigit(c) == \E k \in 1..Len(DigitChars) : DigitChars[k] = c
DigitVal(c) == (CHOOSE k \in 1..Len(DigitChars) : DigitChars[k] = c) - 1

\* int(s) accepts s: a non-empty run of decimal digits
IntOk(s) == s # <<>> /\ \A k \in 1..Len(s) : IsDigit(s[k])
\* int(s) of a run of decimal digits
RECURSIVE ParseInt(_)
ParseInt(s) ==
    IF Len(s) = 1 THEN DigitVal(s[1])
    ELSE 10 * ParseInt(SubSeq(s, 1, Len(s) - 1)) + DigitVal(s[Len(s)])

\* host, port = hp.split(':') succeeds, and so does int(port)
EndpointOk(hp) == Len(Split(hp, ":")) = 2 /\ IntOk(Split(hp, ":")[2])

\* lines 118-122 without the two assignments: backend is only defaulted
StaleBackend(b, hp) == [b EXCEPT !.present = TRUE]

\* m['backend'] after lines 118-122: host and port taken from the endpoint
ResolvedBackend(b, hp) ==
    [b EXCEPT !.present = TRUE, !.has_hp = TRUE,
              !.host = Split(hp, ":")[1],
              !.port = ParseInt(Split(hp, ":")[2])]

\* render(template, ctx): the text is determined by the template and the context
render(template, ctx) == <<template>> \o ctx

\* the context apache_apply renders the site with
ApacheCtx(mm) ==
    << "fqdn",
       IF mm.backend.present /\ mm.backend.has_hp THEN mm.backend.host ELSE DefaultHost,
       IF mm.backend.present /\ mm.backend.has_hp THEN mm.backend.port ELSE DefaultPort,
       IF mm.flutter THEN "document_root" ELSE DefaultDocroot,
       "log_prefix" >>

\* the context systemd_apply renders the unit with
SystemdCtx(mm) ==
    << "user", "group", "working_dir",
       IF mm.backend.present /\ mm.backend.has_hp THEN mm.backend.port ELSE DefaultPort >>

\* the sections apache_apply, systemd_apply, docker_apply and deploy_code
\* subscript without a default: a missing one raises KeyError
ApacheKeyError(mm) == ~mm.apache
SystemdKeyError(mm) == ~mm.service \/ ~mm.backend.present \/ ~mm.backend.has_wd
DockerKeyError(mm) == ~mm.docker.present
DeployKeyError(mm) == mm.backend.present /\ ~mm.backend.has_wd

\* subprocess.run(cmd, check=False): the exit status is never looked at
RaisesNever(check, rc) == FALSE

\* subprocess.run(cmd, check=check): raises CalledProcessError
Raises(check, rc) == check /\ rc # 0

\* ---------------------------------------------------------------- the host
VhostPath == <<"/etc/apache2/sites-available", "fqdn.conf">>
UnitPath == <<"/etc/systemd/system", "name.service">>
ComposePath == <<"compose_path">>
Targets == {VhostPath, UnitPath, ComposePath}

\* write_file without a temporary: the text is written to the target itself
TmpIsTarget(path) == path

\* tmp = path.with_suffix(path.suffix + '.tmp')
TmpOf(path) == Append(path, ".tmp")

Paths == Targets \cup { TmpOf(p) : p \in Targets }

NoFile == [exists |-> FALSE, data |-> <<>>, mode |-> ""]
OldFile == [exists |-> TRUE, data |-> <<"old">>, mode |-> DefaultMode]

\* a host nothing was ever applied to, and a host that runs an older version
FreshHost ==
    [ wd |-> "absent", docroot |-> FALSE,
      fs |-> [p \in Paths |-> NoFile],
      rt |-> [unit |-> <<>>, active |-> FALSE, site |-> FALSE,
              proxy |-> <<>>, stack |-> <<>>, cert |-> FALSE] ]
UsedHost ==
    [ wd |-> "dirty", docroot |-> TRUE,
      fs |-> [p \in Paths |-> IF p \in Targets THEN OldFile ELSE NoFile],
      rt |-> [unit |-> <<"old">>, active |-> TRUE, site |-> TRUE,
              proxy |-> <<"old">>, stack |-> <<"old">>, cert |-> FALSE] ]
Hosts == {FreshHost, UsedHost}

\* ---------------------------------------------------------------- the state
VARIABLES
    manifest,   \* the manifest file on disk
    m,          \* the dict load_manifest returned, as apply has changed it
    pc,         \* the statement apply is at
    wf,         \* the latest write_file call: its arguments, what the target
                \* held when it was entered, and whether it has renamed
    step,       \* how many preinstall commands deploy_code has run
    log,        \* what this apply has done so far, in order: the commands run
                \* with their exit status, directories made, files opened and
                \* renamed, the health probe
    exit,       \* <<>> while the process runs, <<status>> once it has ended
    err,        \* the exception that ended the process, "" if none
    run,        \* the number of the apply invocation
    faulted,    \* an external command, a render or a write has failed
    wd0,        \* the working directory as this apply found it
    snap,       \* the host as the previous apply left it
    wd,         \* the working directory: absent, empty, dirty or tip
    docroot,    \* the document root exists
    fs,         \* the generated files and their temporaries
    rt,         \* process manager, proxy, container runtime, certificate
    dir,        \* the applications directory: file name -> manifest file
    name,       \* the name option status was given, "" if none
    apps,       \* the files status has still to report, in its order
    out,        \* what status has printed, line by line
    procs       \* the processes of a concurrent run, each with its position

vars == <<manifest, m, pc, wf, step, log, exit, err, run, faulted, wd0, snap,
          wd, docroot, fs, rt, dir, name, apps, out, procs>>
\* what a single apply neither reads nor writes
others == <<dir, name, apps, out, procs>>
host == <<wd, docroot, fs, rt>>
Host == [wd |-> wd, docroot |-> docroot, fs |-> fs, rt |-> rt]

\* no write_file call yet in this apply
NoCall == [path |-> <<>>, content |-> <<>>, mode |-> "", caller |-> "",
           before |-> NoFile, renamed |-> FALSE]

Init ==
    /\ manifest \in Manifests
    /\ m = manifest
    /\ pc = "apply"
    /\ wf = NoCall
    /\ step = 0
    /\ log = <<>>
    /\ exit = <<>>
    /\ err = ""
    /\ run = 1
    /\ faulted = FALSE
    /\ dir = <<>> /\ name = "" /\ apps = <<>> /\ out = <<>> /\ procs = <<>>
    /\ \E h \in Hosts :
        /\ wd = h.wd /\ docroot = h.docroot /\ fs = h.fs /\ rt = h.rt
        /\ wd0 = h.wd
        /\ snap = h

\* systemctl daemon-reload and service apache2 reload act on the whole host:
\* they also load the unit and the enabled site of an application that
\* another process is applying (p is that process, with its part of the host)
DaemonReloaded(p) == [p EXCEPT !.rt.unit = p.fs[UnitPath].data]
SitesReloaded(p) == IF p.rt.site THEN [p EXCEPT !.rt.proxy = p.fs[VhostPath].data] ELSE p

\* an exception leaves apply: the interpreter ends with status 1
Throw(e) == pc' = "exit" /\ err' = e /\ exit' = <<ExceptionExit>>
\* apply goes on with the statement at label
Goto(label) == pc' = label /\ err' = err /\ exit' = exit


\* ------------------------------------------------------------------ apply
\* lines 104-126 without the final else: an unknown kind falls through
DispatchNoElse(kind) ==
    CASE kind \in {"fastapi", "streamlit"} -> "deploy_wd"
      [] kind = "flutter" -> "apache_render"
      [] kind = "docker" -> "deploy_wd"
      [] OTHER -> "ssl"

\* lines 104-126: the first statement of the branch the kind selects
Dispatch(kind) ==
    CASE kind \in {"fastapi", "streamlit"} -> "deploy_wd"
      [] kind = "flutter" -> "apache_render"
      [] kind = "docker" -> "deploy_wd"
      [] OTHER -> "unsupported"

\* line 110 without lines 111-112: the document root is never made
AfterApacheNoDocroot(kind) == "ssl"

\* systemd_apply with line 74 left out: enable --now follows the write
AfterWriteNoReload(caller) ==
    CASE caller = "apache_apply" -> "apache_ensite"
      [] caller = "systemd_apply" -> "systemd_enable"
      [] caller = "docker_apply" -> "docker_up"

\* the statement after deploy_code, apache_apply and write_file return
AfterDeploy(kind) == IF kind = "docker" THEN "docker_render" ELSE "systemd_render"
AfterApache(kind) == IF kind = "flutter" THEN "flutter_docroot" ELSE "ssl"
AfterWrite(caller) ==
    CASE caller = "apache_apply" -> "apache_ensite"
      [] caller = "systemd_apply" -> "systemd_reload"
      [] caller = "docker_apply" -> "docker_up"

\* write_file(path, content, mode) is entered
Call(path, content, caller) ==
    wf' = [path |-> path, content |-> content, mode |-> DefaultMode,
           caller |-> caller, before |-> fs[path], renamed |-> FALSE]

\* m = load_manifest(manifest); kind = m['kind']; the if/elif/else on kind
Load ==
    /\ pc = "apply"
    /\ m' = manifest
    /\ IF Dispatch(manifest.kind) = "unsupported"
       THEN pc' = "exit" /\ err' = "Exit" /\ exit' = <<UnsupportedExit>>
       ELSE Goto(Dispatch(manifest.kind))
    /\ UNCHANGED <<others, manifest, wf, step, log, run, faulted, wd0, snap, host>>

\* deploy_code, lines 85-86: the working directory is named and made
DeployWd ==
    /\ pc = "deploy_wd"
    /\ IF DeployKeyError(m)
       THEN Throw("KeyError") /\ UNCHANGED <<wd, log>>
       ELSE /\ wd' = IF wd = "absent" THEN "empty" ELSE wd
            /\ log' = Append(log, <<"mkdir", "wd">>)
            /\ Goto("deploy_checkout")
    /\ step' = 0
    /\ UNCHANGED <<others, manifest, m, wf, run, faulted, wd0, snap, docroot, fs, rt>>

\* deploy_code, lines 87-93: with scm, clone unless .git exists; the else of
\* "if 'scm' in m" reads branch, which that branch never assigned
DeployCheckout ==
    /\ pc = "deploy_checkout"
    /\ IF m.scm
       THEN IF wd \in {"dirty", "tip"}
            THEN Goto("deploy_steps") /\ UNCHANGED <<wd, log, faulted>>
            ELSE \E rc \in {0, 1} :
                   /\ log' = Append(log, <<"run", "git", "clone", rc>>)
                   /\ wd' = IF rc = 0 THEN "tip" ELSE wd
                   /\ faulted' = (faulted \/ rc # 0)
                   /\ IF Raises(TRUE, rc)
                      THEN Throw("CalledProcessError")
                      ELSE Goto("deploy_steps")
       ELSE Throw("NameError") /\ UNCHANGED <<wd, log, faulted>>
    /\ UNCHANGED <<others, manifest, m, wf, step, run, wd0, snap, docroot, fs, rt>>

\* deploy_code, lines 94-95: the next preinstall command, or the return
DeploySteps ==
    /\ pc = "deploy_steps"
    /\ IF step < Len(m.preinstall)
       THEN \E rc \in {0, 1} :
              /\ log' = Append(log, <<"run", "bash", m.preinstall[step + 1], rc>>)
              /\ faulted' = (faulted \/ rc # 0)
              /\ IF Raises(TRUE, rc)
                 THEN Throw("CalledProcessError") /\ step' = step
                 ELSE Goto("deploy_steps") /\ step' = step + 1
       ELSE Goto(AfterDeploy(m.kind)) /\ UNCHANGED <<log, faulted, step>>
    /\ UNCHANGED <<others, manifest, m, wf, run, wd0, snap, host>>

\* systemd_apply, lines 61-73: the unit is rendered, write_file is called
SystemdRender ==
    /\ pc = "systemd_render"
    /\ IF SystemdKeyError(m)
       THEN Throw("KeyError") /\ UNCHANGED <<wf, faulted>>
       ELSE \E ok \in BOOLEAN :
              /\ faulted' = (faulted \/ ~ok)
              /\ IF ok
                 THEN /\ Call(UnitPath, render("systemd", SystemdCtx(m)), "systemd_apply")
                      /\ Goto("w_mkdir")
                 ELSE Throw("TemplateError") /\ wf' = wf
    /\ UNCHANGED <<others, manifest, m, step, log, run, wd0, snap, host>>

\* systemd_apply, line 74: systemctl daemon-reload
SystemdReload ==
    /\ pc = "systemd_reload"
    /\ \E rc \in {0, 1} :
         /\ log' = Append(log, <<"run", "systemctl", "daemon-reload", rc>>)
         /\ rt' = IF rc = 0 THEN [rt EXCEPT !.unit = fs[UnitPath].data] ELSE rt
         /\ procs' = IF rc = 0 THEN [i \in DOMAIN procs |-> DaemonReloaded(procs[i])]
                     ELSE procs
         /\ faulted' = (faulted \/ rc # 0)
         /\ IF Raises(TRUE, rc) THEN Throw("CalledProcessError") ELSE Goto("systemd_enable")
    /\ UNCHANGED <<dir, name, apps, out, manifest, m, wf, step, run, wd0, snap, wd, docroot, fs>>

\* systemd_apply, line 75: systemctl enable --now name.service
SystemdEnable ==
    /\ pc = "systemd_enable"
    /\ \E rc \in {0, 1} :
         /\ log' = Append(log, <<"run", "systemctl", "enable", rc>>)
         /\ rt' = IF rc = 0 THEN [rt EXCEPT !.active = TRUE] ELSE rt
         /\ faulted' = (faulted \/ rc # 0)
         /\ IF Raises(TRUE, rc) THEN Throw("CalledProcessError") ELSE Goto("apache_render")
    /\ UNCHANGED <<others, manifest, m, wf, step, run, wd0, snap, wd, docroot, fs>>

\* apache_apply, lines 47-55: the site is rendered, write_file is called
ApacheRender ==
    /\ pc = "apache_render"
    /\ IF ApacheKeyError(m)
       THEN Throw("KeyError") /\ UNCHANGED <<wf, faulted>>
       ELSE \E ok \in BOOLEAN :
              /\ faulted' = (faulted \/ ~ok)
              /\ IF ok
                 THEN /\ Call(VhostPath, render("apache", ApacheCtx(m)), "apache_apply")
                      /\ Goto("w_mkdir")
                 ELSE Throw("TemplateError") /\ wf' = wf
    /\ UNCHANGED <<others, manifest, m, step, log, run, wd0, snap, host>>

\* apache_apply, line 56: a2ensite fqdn.conf
ApacheEnsite ==
    /\ pc = "apache_ensite"
    /\ \E rc \in {0, 1} :
         /\ log' = Append(log, <<"run", "a2ensite", "fqdn.conf", rc>>)
         /\ rt' = IF rc = 0 THEN [rt EXCEPT !.site = TRUE] ELSE rt
         /\ faulted' = (faulted \/ rc # 0)
         /\ IF Raises(TRUE, rc) THEN Throw("CalledProcessError") ELSE Goto("apache_reload")
    /\ UNCHANGED <<others, manifest, m, wf, step, run, wd0, snap, wd, docroot, fs>>

\* apache_apply, line 57: service apache2 reload
ApacheReload ==
    /\ pc = "apache_reload"
    /\ \E rc \in {0, 1} :
         /\ log' = Append(log, <<"run", "service", "apache2 reload", rc>>)
         /\ rt' = IF rc = 0 /\ rt.site THEN [rt EXCEPT !.proxy = fs[VhostPath].data] ELSE rt
         /\ procs' = IF rc = 0 THEN [i \in DOMAIN procs |-> SitesReloaded(procs[i])]
                     ELSE procs
         /\ faulted' = (faulted \/ rc # 0)
         /\ IF Raises(TRUE, rc) THEN Throw("CalledProcessError") ELSE Goto(AfterApache(m.kind))
    /\ UNCHANGED <<dir, name, apps, out, manifest, m, wf, step, run, wd0, snap, wd, docroot, fs>>

\* docker_apply, lines 79-80: the descriptor is rendered from the whole
\* manifest, then write_file is called with m['docker']['compose_path']
DockerRender ==
    /\ pc = "docker_render"
    /\ \E ok \in BOOLEAN :
         /\ faulted' = (faulted \/ ~ok)
         /\ IF ~ok
            THEN Throw("TemplateError") /\ wf' = wf
            ELSE IF DockerKeyError(m)
                 THEN Throw("KeyError") /\ wf' = wf
                 ELSE /\ Call(ComposePath, render("docker-compose", <<m>>), "docker_apply")
                      /\ Goto("w_mkdir")
    /\ UNCHANGED <<others, manifest, m, step, log, run, wd0, snap, host>>

\* docker_apply, line 81: docker compose -f compose_path -p project up -d
DockerUp ==
    /\ pc = "docker_up"
    /\ \E rc \in {0, 1} :
         /\ log' = Append(log, <<"run", "docker", "compose up", rc>>)
         /\ rt' = IF rc = 0 THEN [rt EXCEPT !.stack = fs[ComposePath].data] ELSE rt
         /\ faulted' = (faulted \/ rc # 0)
         /\ IF Raises(TRUE, rc) THEN Throw("CalledProcessError") ELSE Goto("resolve")
    /\ UNCHANGED <<others, manifest, m, wf, step, run, wd0, snap, wd, docroot, fs>>

\* apply, lines 117-122: with an apache section, backend host and port are
\* taken from docker.publish.http_target
Resolve ==
    /\ pc = "resolve"
    /\ IF ~m.apache
       THEN Goto("ssl") /\ m' = m /\ log' = log
       ELSE IF EndpointOk(m.docker.http_target)
            THEN /\ m' = [m EXCEPT !.backend = ResolvedBackend(m.backend, m.docker.http_target)]
                 /\ log' = log
                 /\ Goto("apache_render")
            ELSE Throw("ValueError") /\ m' = m /\ log' = log
    /\ UNCHANGED <<others, manifest, wf, step, run, faulted, wd0, snap, host>>

\* apply, lines 111-112: the document root is made
FlutterDocroot ==
    /\ pc = "flutter_docroot"
    /\ IF ~m.flutter
       THEN Throw("KeyError") /\ UNCHANGED <<docroot, log>>
       ELSE /\ docroot' = TRUE
            /\ log' = Append(log, <<"mkdir", "docroot">>)
            /\ Goto("ssl")
    /\ UNCHANGED <<others, manifest, m, wf, step, run, faulted, wd0, snap, wd, fs, rt>>

\* apply, lines 128-129 and ensure_ssl: certbot for the fqdn when ssl is set
EnsureSsl ==
    /\ pc = "ssl"
    /\ IF m.ssl
       THEN \E rc \in {0, 1} :
              /\ log' = Append(log, <<"run", "certbot", "fqdn", rc>>)
              /\ rt' = IF rc = 0 THEN [rt EXCEPT !.cert = TRUE] ELSE rt
              /\ faulted' = (faulted \/ rc # 0)
              /\ IF Raises(TRUE, rc) THEN Throw("CalledProcessError") ELSE Goto("healthcheck")
       ELSE Goto("healthcheck") /\ UNCHANGED <<log, rt, faulted>>
    /\ UNCHANGED <<others, manifest, m, wf, step, run, wd0, snap, wd, docroot, fs>>

\* lines 134-138 without the try/except: a failed GET leaves apply
ProbeUncaught(ok) == ~ok

\* requests.get raised and the except clause of lines 137-138 let it through
ProbeRaises(ok) == FALSE

\* apply, lines 132-138: one GET of healthcheck.url when it is set
Healthcheck ==
    /\ pc = "healthcheck"
    /\ IF m.healthcheck
       THEN \E ok \in BOOLEAN :
              /\ log' = Append(log, <<"get", IF ok THEN "status" ELSE "failed">>)
              /\ IF ProbeRaises(ok)
                 THEN Throw("RequestException")
                 ELSE pc' = "exit" /\ err' = "" /\ exit' = <<0>>
       ELSE pc' = "exit" /\ err' = "" /\ exit' = <<0>> /\ log' = log
    /\ UNCHANGED <<others, manifest, m, wf, step, run, faulted, wd0, snap, host>>


\* ------------------------------------------------------------- write_file
\* the new text is added to what the target holds instead of replacing it
Appended(files, src, dst) ==
    [files EXCEPT ![src] = NoFile,
                  ![dst] = [files[src] EXCEPT !.data = files[dst].data \o @]]

\* tmp.replace(path): the temporary takes the place of the target
Replaced(files, src, dst) == [files EXCEPT ![src] = NoFile, ![dst] = files[src]]

\* write_file, line 30: path.parent.mkdir(parents=True, exist_ok=True)
WriteMkdir ==
    /\ pc = "w_mkdir"
    /\ log' = Append(log, <<"mkdir", "parent", wf.path>>)
    /\ Goto("w_open")
    /\ UNCHANGED <<others, manifest, m, wf, step, run, faulted, wd0, snap, host>>

\* write_file, line 32: write_text opens the temporary, which truncates it
WriteOpen ==
    /\ pc = "w_open"
    /\ fs' = [fs EXCEPT ![TmpOf(wf.path)] =
                [exists |-> TRUE, data |-> <<>>,
                 mode |-> IF @.exists THEN @.mode ELSE UmaskMode]]
    /\ log' = Append(log, <<"open", TmpOf(wf.path)>>)
    /\ Goto("w_write")
    /\ UNCHANGED <<others, manifest, m, wf, step, run, faulted, wd0, snap, wd, docroot, rt>>

\* write_file, line 32: write_text writes the content and closes, or raises
WriteText ==
    /\ pc = "w_write"
    /\ \E ok \in BOOLEAN :
         /\ faulted' = (faulted \/ ~ok)
         /\ IF ok
            THEN /\ fs' = [fs EXCEPT ![TmpOf(wf.path)].data = wf.content]
                 /\ Goto("w_chmod")
            ELSE Throw("OSError") /\ fs' = fs
    /\ UNCHANGED <<others, manifest, m, wf, step, log, run, wd0, snap, wd, docroot, rt>>

\* write_file, line 33: os.chmod(tmp, mode)
WriteChmod ==
    /\ pc = "w_chmod"
    /\ fs' = [fs EXCEPT ![TmpOf(wf.path)].mode = wf.mode]
    /\ Goto("w_replace")
    /\ UNCHANGED <<others, manifest, m, wf, step, log, run, faulted, wd0, snap, wd, docroot, rt>>

\* write_file, line 34: tmp.replace(path), and the return to the caller
WriteReplace ==
    /\ pc = "w_replace"
    /\ fs' = Replaced(fs, TmpOf(wf.path), wf.path)
    /\ log' = Append(log, <<"replace", wf.path>>)
    /\ wf' = [wf EXCEPT !.renamed = TRUE]
    /\ Goto(AfterWrite(wf.caller))
    /\ UNCHANGED <<others, manifest, m, step, run, faulted, wd0, snap, wd, docroot, rt>>

\* ----------------------------------------------------------- environment
\* the process is killed where it stands
Interrupt ==
    /\ pc \notin {"apply", "exit", "killed"}
    /\ pc' = "killed"
    /\ faulted' = TRUE
    /\ UNCHANGED <<others, manifest, m, wf, step, log, exit, err, run, wd0, snap, host>>

\* the operator runs apply again on the same manifest, after an apply that
\* ended by itself and met no failing command, render or write
Reapply ==
    /\ pc = "exit"
    /\ ~faulted
    /\ run < MaxApplies
    /\ run' = run + 1
    /\ pc' = "apply"
    /\ m' = manifest
    /\ wf' = NoCall
    /\ step' = 0
    /\ log' = <<>>
    /\ exit' = <<>>
    /\ err' = ""
    /\ wd0' = wd
    /\ snap' = Host
    /\ UNCHANGED <<others, manifest, faulted, host>>

Next ==
    \/ Load
    \/ DeployWd \/ DeployCheckout \/ DeploySteps
    \/ SystemdRender \/ SystemdReload \/ SystemdEnable
    \/ ApacheRender \/ ApacheEnsite \/ ApacheReload
    \/ DockerRender \/ DockerUp
    \/ Resolve \/ FlutterDocroot
    \/ EnsureSsl \/ Healthcheck
    \/ WriteMkdir \/ WriteOpen \/ WriteText \/ WriteChmod \/ WriteReplace
    \/ Interrupt
    \/ Reapply

Spec == Init /\ [][Next]_vars


\* ------------------------------------------------------------- properties
SupportedKinds == {"fastapi", "streamlit", "flutter", "docker"}

\* the apply has run the command (with any exit status) / with status 0
Ran(prog, arg) == \E k \in 1..Len(log) : \E rc \in {0, 1} : log[k] = <<"run", prog, arg, rc>>
Done(prog, arg) == \E k \in 1..Len(log) : log[k] = <<"run", prog, arg, 0>>
Logged(e) == \E k \in 1..Len(log) : log[k] = e
\* every e2 in the log has an e1 before it
Precedes(e1, e2) ==
    \A j \in 1..Len(log) : log[j] = e2 => \E k \in 1..(j - 1) : log[k] = e1

\* this apply has touched nothing: the host is as it found it, nothing is logged
Untouched == log = <<>> /\ Host = snap

\* C1: whatever else a manifest of an unsupported kind holds, apply reaches no
\* applier, deployer, certificate or probe step, leaves the host as it found
\* it, and ends with exit status 2.
C1_UnsupportedKindExits2 ==
    manifest.kind \notin SupportedKinds =>
        /\ pc \in {"apply", "exit"}
        /\ Untouched
        /\ (pc = "exit" => exit = <<UnsupportedExit>>)

C1_Witness ==
    /\ manifest.kind = "unknown-kind"
    /\ manifest.ssl /\ manifest.healthcheck /\ manifest.scm
    /\ pc = "exit" /\ exit = <<2>>

\* C2: in an apply of a docker manifest, whenever write_file has been entered
\* for the site file, the compose descriptor is in place and docker compose up
\* has succeeded before it, and the host and port in the rendered site are the
\* two parts of docker.publish.http_target; the renamed site file holds them.
C2_ProxyUsesPublishedEndpoint ==
    (manifest.kind = "docker" /\ wf.path = VhostPath) =>
        LET hp == manifest.docker.http_target IN
        /\ Logged(<<"replace", ComposePath>>)
        /\ Done("docker", "compose up")
        /\ Precedes(<<"run", "docker", "compose up", 0>>, <<"mkdir", "parent", VhostPath>>)
        /\ Precedes(<<"run", "docker", "compose up", 0>>, <<"open", TmpOf(VhostPath)>>)
        /\ EndpointOk(hp)
        /\ wf.content[3] = Split(hp, ":")[1]
        /\ wf.content[4] = ParseInt(Split(hp, ":")[2])
        /\ (wf.renamed => fs[VhostPath].data = wf.content)

C2_Witness ==
    /\ manifest.kind = "docker"
    /\ manifest.backend.has_hp /\ manifest.backend.host = AuthorHost
    /\ wf.path = VhostPath /\ wf.renamed
    /\ fs[VhostPath].data[3] = <<"h">>
    /\ fs[VhostPath].data[4] = 90
    /\ fs[VhostPath].data[3] # DefaultHost


\* the manifest lacks a section its kind requires
MissingRequired(x) ==
    \/ x.kind \in {"fastapi", "streamlit"} /\ (~x.service \/ ~x.backend.present)
    \/ x.kind = "flutter" /\ ~x.flutter
    \/ x.kind = "docker" /\ ~x.docker.present

\* C3: an apply of a manifest of a supported kind that lacks a section its
\* kind requires never touches the host: no directory made, no file written,
\* no command issued, and it ends with a nonzero status.
C3_MissingSectionNoSideEffect ==
    (manifest.kind \in SupportedKinds /\ MissingRequired(manifest)) =>
        /\ Untouched
        /\ (pc = "exit" => exit # <<0>>)

\* the Code Deployer has acted in this apply
IsDeployCmd(e) == e[1] = "run" /\ (e[2] = "git" \/ e[2] = "bash")
DeployRan ==
    \/ Logged(<<"mkdir", "wd">>)
    \/ \E k \in 1..Len(log) : IsDeployCmd(log[k])

\* C4: in an apply of a manifest of a supported kind the Code Deployer acts
\* only if the manifest has a source section, it has acted when the apply of
\* a manifest with a source section ends with status 0, and a manifest without
\* one does not fail in the deployer.
C4_DeployIffSource ==
    manifest.kind \in SupportedKinds =>
        /\ (DeployRan => manifest.scm)
        /\ (manifest.scm /\ pc = "exit" /\ exit = <<0>> => DeployRan)
        /\ (~manifest.scm => err # "NameError")

\* C5: when deploy_code has dealt with the checkout of a manifest with a
\* source section in a working directory that already held a checkout, it has
\* run a fetch and then a reset, no clone, and the working directory is at the
\* branch tip.
C5_ExistingCheckoutIsReset ==
    (manifest.scm /\ wd0 \in {"dirty", "tip"} /\ pc = "deploy_steps") =>
        /\ Done("git", "fetch")
        /\ Done("git", "reset")
        /\ Precedes(<<"run", "git", "fetch", 0>>, <<"run", "git", "reset", 0>>)
        /\ ~Ran("git", "clone")
        /\ wd = "tip"


\* the log entries of the preinstall commands, in the order they were run
StepLog == SelectSeq(log, LAMBDA e : e[1] = "run" /\ e[2] = "bash")
\* a write_file step or an activation command of an applier
IsApplierEvent(e) ==
    \/ e[1] \in {"open", "replace"}
    \/ e[1] = "mkdir" /\ e[2] = "parent"
    \/ e[1] = "run" /\ e[2] \in {"systemctl", "a2ensite", "service", "docker"}

\* C6: the preinstall commands run are the first ones of the manifest's list,
\* in its order, each after the previous one returned 0; a clone or preinstall
\* command that fails is the last thing the apply does (it ends with status 1),
\* and no applier write or activation command comes before a deploy command.
C6_DeployFailureStopsApply ==
    /\ Len(StepLog) <= Len(manifest.preinstall)
    /\ \A k \in 1..Len(StepLog) :
         /\ StepLog[k][3] = manifest.preinstall[k]
         /\ (k < Len(StepLog) => StepLog[k][4] = 0)
    /\ \A j \in 1..Len(log) :
         (IsDeployCmd(log[j]) /\ log[j][4] # 0) =>
             /\ j = Len(log)
             /\ pc = "exit" /\ exit = <<ExceptionExit>>
             /\ fs = snap.fs /\ rt = snap.rt
    /\ \A j \in 1..Len(log) : \A k \in 1..(j - 1) :
         ~(IsApplierEvent(log[k]) /\ IsDeployCmd(log[j]))

C6_Witness ==
    /\ Len(manifest.preinstall) >= 2
    /\ Len(log) >= 3
    /\ log[Len(log)] = <<"run", "bash", "1", 1>>
    /\ log[Len(log) - 1] = <<"run", "git", "clone", 0>>
    /\ pc = "exit"

\* C7: a failed certbot does not end the apply with an exception: the apply
\* goes on to the probe (if a url is set) and ends with status 0.
C7_CertFailureIsWarning ==
    Logged(<<"run", "certbot", "fqdn", 1>>) =>
        /\ err # "CalledProcessError"
        /\ (pc = "exit" => exit = <<0>>)
        /\ (pc = "exit" /\ manifest.healthcheck =>
              Logged(<<"get", "status">>) \/ Logged(<<"get", "failed">>))

IsProbe(e) == e[1] = "get"

\* C8: an apply issues at most one probe, only when healthcheck.url is set;
\* the probe is the last thing it does, after the certbot run when ssl is set;
\* once the probe is made, failed or not, the apply has ended with status 0;
\* and an apply that ends with status 0 with a url set has made one probe.
C8_ProbeOnceNeverFatal ==
    /\ Len(SelectSeq(log, IsProbe)) <= 1
    /\ \A j \in 1..Len(log) :
         IsProbe(log[j]) =>
             /\ manifest.healthcheck
             /\ j = Len(log)
             /\ pc = "exit" /\ exit = <<0>> /\ err = ""
             /\ (manifest.ssl => Done("certbot", "fqdn"))
    /\ (pc = "exit" /\ exit = <<0>> /\ manifest.healthcheck =>
          Len(SelectSeq(log, IsProbe)) = 1)

C8_Witness ==
    /\ pc = "exit" /\ exit = <<0>>
    /\ Len(log) > 1
    /\ log[Len(log)] = <<"get", "failed">>
    /\ Done("certbot", "fqdn")

\* C9: when an apply that follows an apply ends (both without a failing
\* command, render or write), the generated files, the document root and the
\* process-manager, proxy, container and certificate state are what the
\* previous apply left.
C9_SecondApplyChangesNothing ==
    (run >= 2 /\ pc = "exit" /\ ~faulted) =>
        /\ fs = snap.fs
        /\ rt = snap.rt
        /\ docroot = snap.docroot

C9_Witness ==
    /\ run = 2 /\ pc = "exit" /\ exit = <<0>> /\ ~faulted
    /\ manifest.kind = "docker" /\ manifest.apache
    /\ Logged(<<"replace", VhostPath>>) /\ Logged(<<"replace", ComposePath>>)
    /\ fs[VhostPath].data # <<"old">>
    /\ rt.proxy = fs[VhostPath].data

\* the file a completed write_file(path, content, mode) leaves at path
NewFile == [exists |-> TRUE, data |-> wf.content, mode |-> wf.mode]

\* C10: from the moment write_file is entered until its rename, also if the
\* process is killed or the write raises in between, the target holds what it
\* held when write_file was entered; after the rename it holds the new text
\* with the requested mode; it never holds anything else.
C10_TargetPriorOrNew ==
    wf.path # <<>> =>
        /\ (~wf.renamed => fs[wf.path] = wf.before)
        /\ (wf.renamed => fs[wf.path] = NewFile)

C10_Witness ==
    /\ pc = "killed"
    /\ wf.path = UnitPath /\ ~wf.renamed
    /\ wf.before = OldFile
    /\ fs[TmpOf(UnitPath)].exists
    /\ fs[TmpOf(UnitPath)].data = <<>>
    /\ fs[UnitPath] = OldFile


NativeKinds == {"fastapi", "streamlit"}
VhostWriteEvents ==
    { <<"mkdir", "parent", VhostPath>>, <<"open", TmpOf(VhostPath)>>,
      <<"replace", VhostPath>> }

\* C15: an apply of a fastapi/streamlit manifest without an apache section
\* writes no site file, runs neither a2ensite nor the proxy reload, and does
\* not end with KeyError once its unit is enabled.
C15_NoProxyNoProxyApplier ==
    (manifest.kind \in NativeKinds /\ ~manifest.apache) =>
        /\ \A e \in VhostWriteEvents : ~Logged(e)
        /\ ~Ran("a2ensite", "fqdn.conf")
        /\ ~Ran("service", "apache2 reload")
        /\ ~(Done("systemctl", "enable") /\ pc = "exit" /\ err = "KeyError")

\* C16: in an apply of a flutter manifest that has its flutter section the
\* document root is made before
\* any write_file step for the site file and before a2ensite and the proxy
\* reload; the site is never enabled by an apply that has not made it.
C16_DocrootBeforeProxy ==
    (manifest.kind = "flutter" /\ manifest.flutter) =>
        /\ \A e \in VhostWriteEvents : Precedes(<<"mkdir", "docroot">>, e)
        /\ \A rc \in {0, 1} :
             /\ Precedes(<<"mkdir", "docroot">>, <<"run", "a2ensite", "fqdn.conf", rc>>)
             /\ Precedes(<<"mkdir", "docroot">>, <<"run", "service", "apache2 reload", rc>>)
        /\ (Done("a2ensite", "fqdn.conf") => docroot)

IsApplierCmd(e) == e[1] = "run" /\ e[2] \in {"systemctl", "a2ensite", "service", "docker"}
IsCertOrProbe(e) == e[1] = "get" \/ (e[1] = "run" /\ e[2] = "certbot")

\* C17: an applier command that returns nonzero, a render that fails and a
\* write that fails each end the apply at once with status 1: the failed
\* command is the last entry of the log, no certbot run or probe follows, and
\* the step that ends the apply with an exception changes nothing on the
\* host (no rollback of what was written or activated before).
C17_ApplierFailureStops ==
    /\ [](\A j \in 1..Len(log) :
            (IsApplierCmd(log[j]) /\ log[j][4] # 0) =>
                /\ j = Len(log)
                /\ pc = "exit" /\ exit = <<ExceptionExit>>
                /\ err = "CalledProcessError")
    /\ [](err \in {"TemplateError", "OSError"} =>
            /\ pc = "exit" /\ exit = <<ExceptionExit>>
            /\ \A j \in 1..Len(log) : ~IsCertOrProbe(log[j]))
    /\ [][(pc # "exit" /\ pc' = "exit" /\ exit' = <<ExceptionExit>>) =>
            (fs' = fs /\ rt' = rt /\ wd' = wd /\ docroot' = docroot)]_vars

C17_Witness ==
    /\ pc = "exit" /\ exit = <<1>>
    /\ manifest.kind \in NativeKinds
    /\ Len(log) >= 1
    /\ log[Len(log)] = <<"run", "service", "apache2 reload", 1>>
    /\ Logged(<<"replace", UnitPath>>) /\ Logged(<<"replace", VhostPath>>)
    /\ snap.fs[UnitPath] = NoFile /\ fs[UnitPath].exists
    /\ rt.active /\ rt.site

\* every applier apply runs for the kind has run to its end
AppliersDone ==
    CASE manifest.kind \in NativeKinds ->
            Done("systemctl", "enable") /\ Done("service", "apache2 reload")
      [] manifest.kind = "flutter" ->
            Done("service", "apache2 reload") /\ Logged(<<"mkdir", "docroot">>)
      [] manifest.kind = "docker" ->
            /\ Done("docker", "compose up")
            /\ (manifest.apache => Done("service", "apache2 reload"))
      [] OTHER -> FALSE

\* C18: certbot is run, and the probe made, only when every applier of the
\* kind has run to its end; the probe comes after a successful certbot run
\* when ssl is set; nothing an applier does (write_file step, activation
\* command, document root) comes after the certbot run or the probe.
C18_CertAndProbeLast ==
    \A j \in 1..Len(log) :
        IsCertOrProbe(log[j]) =>
            /\ AppliersDone
            /\ \A k \in (j + 1)..Len(log) :
                 /\ ~IsApplierEvent(log[k])
                 /\ log[k] # <<"mkdir", "docroot">>
            /\ (IsProbe(log[j]) /\ manifest.ssl =>
                  \E k \in 1..(j - 1) : log[k] = <<"run", "certbot", "fqdn", 0>>)

C18_Witness ==
    /\ pc = "exit" /\ exit = <<0>>
    /\ manifest.kind = "flutter"
    /\ Len(log) >= 2
    /\ log[Len(log)] = <<"get", "status">>
    /\ log[Len(log) - 1] = <<"run", "certbot", "fqdn", 0>>
    /\ Logged(<<"mkdir", "docroot">>)

\* C19: systemctl daemon-reload is run only when the unit file has been
\* renamed into place with the full rendered text, and enable --now only
\* after a daemon-reload that returned 0; a2ensite is run only when the site
\* file has been renamed into place with the full rendered text, and the
\* proxy reload only after an a2ensite that returned 0.
C19_WriteThenActivateInOrder ==
    /\ \A rc \in {0, 1} :
         /\ Precedes(<<"replace", UnitPath>>, <<"run", "systemctl", "daemon-reload", rc>>)
         /\ Precedes(<<"run", "systemctl", "daemon-reload", 0>>, <<"run", "systemctl", "enable", rc>>)
         /\ Precedes(<<"replace", VhostPath>>, <<"run", "a2ensite", "fqdn.conf", rc>>)
         /\ Precedes(<<"run", "a2ensite", "fqdn.conf", 0>>, <<"run", "service", "apache2 reload", rc>>)
    /\ (Ran("systemctl", "daemon-reload") =>
          fs[UnitPath] = [exists |-> TRUE, mode |-> DefaultMode,
                          data |-> render("systemd", SystemdCtx(manifest))])
    /\ (Ran("a2ensite", "fqdn.conf") =>
          /\ wf.path = VhostPath /\ wf.renamed
          /\ fs[VhostPath] = [exists |-> TRUE, mode |-> DefaultMode,
                              data |-> render("apache", ApacheCtx(m))])

C19_Witness ==
    /\ manifest.kind \in NativeKinds
    /\ Len(log) >= 2
    /\ log[Len(log)] = <<"run", "service", "apache2 reload", 0>>
    /\ log[Len(log) - 1] = <<"run", "a2ensite", "fqdn.conf", 0>>
    /\ Done("systemctl", "enable")
    /\ rt.unit = fs[UnitPath].data /\ rt.proxy = fs[VhostPath].data


\* ----------------------------------------------------------------- status
\* The files of /opt/publisher/apps. A file is named by the rank of its name
\* in lexicographic order; it is not valid YAML (unreadable), or lacks fqdn
\* (not complete), or is a manifest status can report on.
AppNames == {"a", "b"}
AppFiles ==
    { [readable |-> TRUE, complete |-> TRUE, name |-> n, kind |-> k, health |-> h] :
        n \in AppNames, k \in {"fastapi", "streamlit", "flutter", "docker"},
        h \in {FALSE} }
    \cup { [readable |-> TRUE, complete |-> TRUE, name |-> n, kind |-> "fastapi",
            health |-> TRUE] : n \in AppNames }
    \cup { [readable |-> FALSE, complete |-> FALSE, name |-> "", kind |-> "", health |-> FALSE],
           [readable |-> TRUE, complete |-> FALSE, name |-> "a", kind |-> "fastapi", health |-> FALSE] }
Dirs == UNION { [1..n -> AppFiles] : n \in 0..MaxFiles }

\* sorted(paths)
Sorted(g) == SortSeq(g, LAMBDA a, b : a < b)

\* line 155 with an activation command in the place of the query
StatusServiceEnable == <<"systemctl", "enable">>

\* line 155: systemctl is-active --quiet name.service
StatusServiceCmd == <<"systemctl", "is-active">>
\* line 158: docker ps
StatusDockerCmd == <<"docker", "ps">>

\* what a command status calls does to the process manager and the runtime
StatusEffect(cmd, r) ==
    CASE cmd = <<"systemctl", "is-active">> -> r
      [] cmd = <<"docker", "ps">> -> r
      [] cmd = <<"systemctl", "enable">> -> [r EXCEPT !.active = TRUE]
      [] OTHER -> r

\* line 151: APACHE_SITES / f"{m['fqdn']}.conf"; the host serves application
\* "a", every other application's site file is a path of its own
SiteFile(f) ==
    IF f.name = "a" THEN VhostPath
    ELSE <<"/etc/apache2/sites-available", f.name \o ".conf">>

\* Path.exists()
Exists(path) == path \in DOMAIN fs /\ fs[path].exists

\* the file status has loaded before it has loaded any
NoApp == [readable |-> FALSE, complete |-> FALSE, name |-> "", kind |-> "", health |-> FALSE]

\* what status leaves alone in every step
statusFrame == <<manifest, wf, step, run, faulted, wd0, snap, procs, dir, name,
                 wd, docroot, fs>>

StatusInit ==
    /\ dir \in Dirs
    /\ name \in {"", "a"}
    /\ apps = <<>>
    /\ out = <<>>
    /\ procs = <<>>
    /\ manifest = NoApp
    /\ m = NoApp
    /\ pc = "status"
    /\ wf = NoCall
    /\ step = 0
    /\ log = <<>>
    /\ exit = <<>>
    /\ err = ""
    /\ run = 1
    /\ faulted = FALSE
    /\ \E h \in Hosts :
        /\ wd = h.wd /\ docroot = h.docroot /\ fs = h.fs /\ rt = h.rt
        /\ wd0 = h.wd
        /\ snap = h

\* status, line 143: apps = sorted(Path(...).glob('*.yml'))
StatusGlob ==
    /\ pc = "status"
    /\ \E g \in Permutations(DOMAIN dir) : apps' = Sorted(g)
    /\ log' = Append(log, <<"glob">>)
    /\ Goto("st_load")
    /\ UNCHANGED <<statusFrame, m, out, rt>>

\* status, lines 144-149: the next file is loaded, skipped when the name
\* option is given and differs, and its header printed; after the last file
\* status returns
StatusLoad ==
    /\ pc = "st_load"
    /\ IF apps = <<>>
       THEN /\ pc' = "exit" /\ err' = "" /\ exit' = <<0>>
            /\ UNCHANGED <<m, apps, out, log>>
       ELSE LET f == dir[Head(apps)] IN
            /\ log' = Append(log, <<"read", Head(apps)>>)
            /\ IF ~f.readable
               THEN Throw("YAMLError") /\ UNCHANGED <<m, apps, out>>
               ELSE /\ m' = f
                    /\ IF name # "" /\ f.name # name
                       THEN Goto("st_load") /\ apps' = Tail(apps) /\ out' = out
                       ELSE IF ~f.complete
                            THEN Throw("KeyError") /\ UNCHANGED <<apps, out>>
                            ELSE /\ out' = Append(out, <<"block", Head(apps), f.name, f.kind>>)
                                 /\ apps' = apps
                                 /\ Goto("st_site")
    /\ UNCHANGED <<statusFrame, rt>>

\* status, lines 151-152: is the site file there
StatusSite ==
    /\ pc = "st_site"
    /\ log' = Append(log, <<"exists", SiteFile(m)>>)
    /\ out' = Append(out, <<"apache site", IF Exists(SiteFile(m)) THEN "present" ELSE "missing">>)
    /\ Goto(CASE m.kind \in {"fastapi", "streamlit"} -> "st_service"
              [] m.kind = "docker" -> "st_docker"
              [] OTHER -> "st_health")
    /\ UNCHANGED <<statusFrame, m, apps, rt>>

\* status, lines 154-156: the unit's activity, for fastapi and streamlit
StatusService ==
    /\ pc = "st_service"
    /\ \E rc \in {0, 1} :
         /\ log' = Append(log, <<"call">> \o StatusServiceCmd \o <<rc>>)
         /\ out' = Append(out, <<"service", IF rc = 0 THEN "active" ELSE "inactive">>)
    /\ rt' = StatusEffect(StatusServiceCmd, rt)
    /\ Goto("st_health")
    /\ UNCHANGED <<statusFrame, m, apps>>

\* status, lines 157-158: the container list, for docker
StatusDocker ==
    /\ pc = "st_docker"
    /\ \E rc \in {0, 1} :
         log' = Append(log, <<"call">> \o StatusDockerCmd \o <<rc>>)
    /\ out' = Append(out, <<"containers">>)
    /\ rt' = StatusEffect(StatusDockerCmd, rt)
    /\ Goto("st_health")
    /\ UNCHANGED <<statusFrame, m, apps>>

\* status, lines 160-166: one GET of healthcheck.url when it is set, and on
\* to the next file
StatusHealth ==
    /\ pc = "st_health"
    /\ IF m.health
       THEN \E ok \in BOOLEAN :
              /\ log' = Append(log, <<"get", IF ok THEN "status" ELSE "failed">>)
              /\ out' = Append(out, <<"health", IF ok THEN "status" ELSE "failed">>)
       ELSE UNCHANGED <<log, out>>
    /\ apps' = Tail(apps)
    /\ Goto("st_load")
    /\ UNCHANGED <<statusFrame, m, rt>>

StatusNext ==
    \/ StatusGlob \/ StatusLoad \/ StatusSite
    \/ StatusService \/ StatusDocker \/ StatusHealth

SpecStatus == StatusInit /\ [][StatusNext]_vars

\* ------------------------------------------------------ properties of status
ReadOnlyEvent(e) ==
    \/ e[1] \in {"glob", "read", "exists", "get"}
    \/ e[1] = "call" /\ <<e[2], e[3]>> \in {<<"systemctl", "is-active">>, <<"docker", "ps">>}
Count(seq, tag) == Len(SelectSeq(seq, LAMBDA e : e[1] = tag))

\* C11: status, for one named application or for all, leaves the host as it
\* found it (no file written, no directory created, nothing activated), every
\* command it issues is an existence check, an is-active query, a container
\* listing or an HTTP GET, and it sends at most one GET per application block.
C11_StatusLeavesHostUnchanged ==
    /\ Host = snap
    /\ \A i \in 1..Len(log) : ReadOnlyEvent(log[i])
    /\ Count(log, "get") <= Count(out, "block")

\* status has reported on a unit, a container stack and a health URL
C11_Witness ==
    /\ pc = "exit" /\ exit = <<0>>
    /\ Count(log, "call") >= 1
    /\ Count(log, "get") >= 1
    /\ Count(log, "exists") = 2

\* C12: status ends with exit status 0 whatever manifests the applications
\* directory holds.
C12_StatusExitsZero ==
    pc = "exit" => exit = <<0>>

\* the files whose block status is to print: all of them, or with a name
\* given the ones that carry it
Selected == SelectSeq([i \in 1..Len(dir) |-> i],
                      LAMBDA i : name = "" \/ dir[i].name = name)
BlockFiles == LET b == SelectSeq(out, LAMBDA e : e[1] = "block")
              IN [i \in 1..Len(b) |-> b[i][2]]
BlockLines(i) ==
    /\ i + 1 <= Len(out) /\ out[i + 1][1] = "apache site"
    /\ out[i][4] \in {"fastapi", "streamlit"} =>
           i + 2 <= Len(out) /\ out[i + 2][1] = "service"
    /\ out[i][4] = "docker" =>
           i + 2 <= Len(out) /\ out[i + 2][1] = "containers"

\* C13: when status has ended it has printed one block per manifest file (per
\* manifest file of the given name), in the order of the file names, and every
\* block holds the site line and the service or container line of its kind.
C13_OneBlockPerManifest ==
    pc = "exit" =>
        /\ BlockFiles = Selected
        /\ \A i \in 1..Len(out) : out[i][1] = "block" => BlockLines(i)

\* ------------------------------------------------------ concurrent applies
\* Two publishctl processes apply two different applications on one host.
\* The applications differ in name, domain, working directory and compose
\* path, so each has its own unit, site and compose file (and temporaries:
\* the temporary's name is the target's plus ".tmp"), its own working
\* directory and its own unit, site, stack and certificate in the runtime.
\* The variables of apply hold the process that is running and its
\* application's part of the host; procs holds the other process.

\* the manifest's apply goes through when no command, render or write fails
Applicable(mf) ==
    /\ mf.kind \in {"fastapi", "streamlit", "flutter", "docker"}
    /\ mf.apache
    /\ mf.kind \in {"fastapi", "streamlit"} => mf.scm /\ ~SystemdKeyError(mf)
    /\ mf.kind = "flutter" => mf.flutter
    /\ mf.kind = "docker" =>
         mf.scm /\ ~DeployKeyError(mf) /\ ~DockerKeyError(mf) /\ EndpointOk(mf.docker.http_target)

\* one manifest of each of three kinds, complete, with a certificate, a
\* health URL and (where the kind deploys) one preinstall command
PairManifests ==
    { mf \in Manifests :
        /\ Applicable(mf)
        /\ mf.kind # "streamlit"
        /\ mf.ssl /\ mf.healthcheck
        /\ mf.backend.present = (mf.kind # "flutter")
        /\ mf.backend.present => mf.backend.has_wd /\ mf.backend.has_hp
        /\ Len(mf.preinstall) = IF mf.kind = "flutter" THEN 0 ELSE 1 }

\* m with the manifest a module-level global of one interpreter that runs
\* both applies: the process resumes with whatever was loaded last
SharedLoaded(p) == m

\* each process is its own interpreter: m is the dict it loaded itself
Loaded(p) == p.m

\* the process that is running, as procs holds one that is not
Private(id) ==
    [ id |-> id, manifest |-> manifest, m |-> m, pc |-> pc, wf |-> wf, step |-> step,
      log |-> log, exit |-> exit, err |-> err, faulted |-> faulted,
      wd0 |-> wd0, snap |-> snap, wd |-> wd, docroot |-> docroot, fs |-> fs, rt |-> rt ]

\* a process that is about to apply manifest mf, with its application's part h
\* of the host
Started(id, mf, h) ==
    [ id |-> id, manifest |-> mf, m |-> mf, pc |-> "apply", wf |-> NoCall, step |-> 0,
      log |-> <<>>, exit |-> <<>>, err |-> "", faulted |-> FALSE,
      wd0 |-> h.wd, snap |-> h, wd |-> h.wd, docroot |-> h.docroot, fs |-> h.fs, rt |-> h.rt ]

\* the variables of apply are those of process p
Running(p) ==
    /\ manifest = p.manifest /\ m = p.m /\ pc = p.pc /\ wf = p.wf /\ step = p.step
    /\ log = p.log /\ exit = p.exit /\ err = p.err /\ faulted = p.faulted
    /\ wd0 = p.wd0 /\ snap = p.snap
    /\ wd = p.wd /\ docroot = p.docroot /\ fs = p.fs /\ rt = p.rt

PairInit ==
    /\ \E ma \in PairManifests, mb \in PairManifests, ha \in Hosts, hb \in Hosts :
         /\ Running(Started(1, ma, ha))
         /\ procs = << Started(2, mb, hb) >>
    /\ run = 1
    /\ dir = <<>> /\ name = "" /\ apps = <<>> /\ out = <<>>

\* the scheduler takes the running process off and puts the other one on
Switch ==
    /\ procs # <<>>
    /\ procs[1].pc # "exit"
    /\ procs' = << Private(3 - procs[1].id) >>
    /\ manifest' = procs[1].manifest
    /\ m' = Loaded(procs[1])
    /\ pc' = procs[1].pc /\ wf' = procs[1].wf /\ step' = procs[1].step
    /\ log' = procs[1].log /\ exit' = procs[1].exit /\ err' = procs[1].err
    /\ faulted' = procs[1].faulted /\ wd0' = procs[1].wd0 /\ snap' = procs[1].snap
    /\ wd' = procs[1].wd /\ docroot' = procs[1].docroot
    /\ fs' = procs[1].fs /\ rt' = procs[1].rt
    /\ UNCHANGED <<run, dir, name, apps, out>>

PairNext ==
    \/ Load
    \/ DeployWd \/ DeployCheckout \/ DeploySteps
    \/ SystemdRender \/ SystemdReload \/ SystemdEnable
    \/ ApacheRender \/ ApacheEnsite \/ ApacheReload
    \/ DockerRender \/ DockerUp
    \/ Resolve \/ FlutterDocroot
    \/ EnsureSsl \/ Healthcheck
    \/ WriteMkdir \/ WriteOpen \/ WriteText \/ WriteChmod \/ WriteReplace
    \/ Switch

SpecPair == PairInit /\ [][PairNext]_vars

\* m after lines 117-122, for a manifest the apply of which goes through
Resolved(mf) ==
    IF mf.kind = "docker" /\ mf.apache
    THEN [mf EXCEPT !.backend = ResolvedBackend(mf.backend, mf.docker.http_target)]
    ELSE mf

\* what write_file leaves at its target
Written(data) == [exists |-> TRUE, data |-> data, mode |-> DefaultMode]

\* The host after an apply of manifest mf that started on host h, ran alone
\* and met no failure: lines 104-129 read as one function.
Applied(mf, h) ==
    LET native == mf.kind \in {"fastapi", "streamlit"}
        flutter == mf.kind = "flutter"
        docker == mf.kind = "docker"
        proxied == native \/ flutter \/ (docker /\ mf.apache)
        unit == render("systemd", SystemdCtx(mf))
        site == render("apache", ApacheCtx(Resolved(mf)))
        stack == render("docker-compose", <<mf>>)
    IN [ wd |-> IF flutter \/ h.wd \in {"dirty", "tip"} THEN h.wd ELSE "tip",
         docroot |-> h.docroot \/ flutter,
         fs |-> [p \in Paths |->
                   IF p = UnitPath /\ native THEN Written(unit)
                   ELSE IF p = VhostPath /\ proxied THEN Written(site)
                   ELSE IF p = ComposePath /\ docker THEN Written(stack)
                   ELSE h.fs[p]],
         rt |-> [ unit |-> IF native THEN unit ELSE h.rt.unit,
                  active |-> h.rt.active \/ native,
                  site |-> h.rt.site \/ proxied,
                  proxy |-> IF proxied THEN site ELSE h.rt.proxy,
                  stack |-> IF docker THEN stack ELSE h.rt.stack,
                  cert |-> h.rt.cert \/ mf.ssl ] ]

\* process p has ended without a failure of its own; it has ended as an apply
\* that ran alone ends
EndedAlone(p) ==
    /\ p.exit = <<0>>
    /\ [wd |-> p.wd, docroot |-> p.docroot, fs |-> p.fs, rt |-> p.rt]
         = Applied(p.manifest, p.snap)

\* C14: in every interleaving of two applies of different applications, an
\* apply that has ended and met no failing command, render or write of its own
\* has exit status 0, and its application's files, directories and runtime
\* state are those that the apply leaves when it runs alone, whatever the
\* other apply has done or does later.
C14_ConcurrentAppliesAsAlone ==
    procs # <<>> =>
        \A p \in {Private(0), procs[1]} :
            p.pc = "exit" /\ ~p.faulted => EndedAlone(p)

\* an apply has ended without failure; its reload of the proxy came while the
\* other apply stood between the rename of its site file and its a2ensite,
\* and loaded that new site
C14_Witness ==
    /\ procs # <<>>
    /\ pc = "exit" /\ ~faulted /\ exit = <<0>>
    /\ procs[1].pc = "apache_ensite"
    /\ procs[1].snap = UsedHost
    /\ procs[1].rt.proxy = procs[1].fs[VhostPath].data
    /\ procs[1].rt.proxy # UsedHost.rt.proxy

\* ------------------------------------------- concurrent write_file calls
\* Two write_file calls run at once, each in its own process; procs holds
\* them. A call is at a statement of lines 30-34, has ended ("done") or has
\* raised ("failed"). While write_text has the temporary open the call holds
\* a file, not a name: "at" is the path that file is now found at, or
\* Unlinked when no name leads to it any more.
Unlinked == <<>>
Contents == { <<"x", "x">>, <<"y">> }
StaleTmp == [exists |-> TRUE, data |-> <<"s", "s", "s">>, mode |-> UmaskMode]

\* open(tmp, 'a'): what the file holds is kept
OpenedKeeping(f) ==
    [exists |-> TRUE, data |-> f.data, mode |-> IF f.exists THEN f.mode ELSE UmaskMode]

\* line 32, open(tmp, 'w'): the file is created, or emptied if it is there
Opened(f) ==
    [exists |-> TRUE, data |-> <<>>, mode |-> IF f.exists THEN f.mode ELSE UmaskMode]

\* line 32, write(content) at offset 0 of a file that holds data
Overlaid(data, content) ==
    content \o SubSeq(data, Len(content) + 1, Len(data))

\* where an open file is found after src was renamed to dst
Moved(at, src, dst) ==
    IF at = src THEN dst ELSE IF at = dst THEN Unlinked ELSE at

Writer(id, path, content) ==
    [ id |-> id, path |-> path, content |-> content, mode |-> DefaultMode,
      pc |-> "w_mkdir", at |-> Unlinked, err |-> "", shared |-> FALSE ]

\* the call has opened its temporary and not yet renamed it
Holds(w, tmp) == w.pc \in {"w_write", "w_chmod", "w_replace"} /\ TmpOf(w.path) = tmp

WritersInit ==
    /\ \E c1 \in Contents, c2 \in Contents, p2 \in {VhostPath, UnitPath} :
         procs = << Writer(1, VhostPath, c1), Writer(2, p2, c2) >>
    /\ \E h \in Hosts, stale \in BOOLEAN :
         /\ fs = IF stale THEN [h.fs EXCEPT ![TmpOf(VhostPath)] = StaleTmp] ELSE h.fs
         /\ wd = h.wd /\ docroot = h.docroot /\ rt = h.rt
         /\ wd0 = h.wd
         /\ snap = h
    /\ manifest = NoApp /\ m = NoApp
    /\ pc = "writers"
    /\ wf = NoCall
    /\ step = 0 /\ log = <<>> /\ exit = <<>> /\ err = "" /\ run = 1 /\ faulted = FALSE
    /\ dir = <<>> /\ name = "" /\ apps = <<>> /\ out = <<>>

\* what the two calls leave alone
writersFrame == <<manifest, m, pc, wf, step, exit, err, run, faulted, wd0, snap,
                  wd, docroot, rt, dir, name, apps, out>>

\* write_file, line 30
WMkdir(w) ==
    /\ procs[w].pc = "w_mkdir"
    /\ procs' = [procs EXCEPT ![w].pc = "w_open"]
    /\ log' = Append(log, <<w, "mkdir", "parent", procs[w].path>>)
    /\ UNCHANGED <<writersFrame, fs>>

\* write_file, lines 31-32: the temporary is opened; a call that has the same
\* temporary open, or written and not yet renamed, shares it from now on
WOpen(w) ==
    LET tmp == TmpOf(procs[w].path)
        o == 3 - w
        both == Holds(procs[o], tmp)
    IN /\ procs[w].pc = "w_open"
       /\ fs' = [fs EXCEPT ![tmp] = Opened(@)]
       /\ procs' = [procs EXCEPT ![w].pc = "w_write", ![w].at = tmp,
                                 ![w].shared = @ \/ both, ![o].shared = @ \/ both]
       /\ log' = Append(log, <<w, "open", tmp>>)
       /\ UNCHANGED writersFrame

\* write_file, line 32: the content is written to the open file, which is
\* then closed
WWrite(w) ==
    /\ procs[w].pc = "w_write"
    /\ fs' = IF procs[w].at \in DOMAIN fs
             THEN [fs EXCEPT ![procs[w].at].data = Overlaid(@, procs[w].content)]
             ELSE fs
    /\ procs' = [procs EXCEPT ![w].pc = "w_chmod", ![w].at = Unlinked]
    /\ log' = Append(log, <<w, "write", procs[w].at>>)
    /\ UNCHANGED writersFrame

\* write_file, line 33: os.chmod(tmp, mode), by name
WChmod(w) ==
    LET tmp == TmpOf(procs[w].path) IN
    /\ procs[w].pc = "w_chmod"
    /\ IF fs[tmp].exists
       THEN /\ fs' = [fs EXCEPT ![tmp].mode = procs[w].mode]
            /\ procs' = [procs EXCEPT ![w].pc = "w_replace"]
       ELSE /\ fs' = fs
            /\ procs' = [procs EXCEPT ![w].pc = "failed", ![w].err = "FileNotFoundError"]
    /\ log' = Append(log, <<w, "chmod", tmp>>)
    /\ UNCHANGED writersFrame

\* write_file, line 34: tmp.replace(path), by name
WReplace(w) ==
    LET tmp == TmpOf(procs[w].path)
        o == 3 - w
    IN /\ procs[w].pc = "w_replace"
       /\ IF fs[tmp].exists
          THEN /\ fs' = Replaced(fs, tmp, procs[w].path)
               /\ procs' = [procs EXCEPT ![w].pc = "done",
                                         ![o].at = Moved(@, tmp, procs[w].path)]
          ELSE /\ fs' = fs
               /\ procs' = [procs EXCEPT ![w].pc = "failed", ![w].err = "FileNotFoundError"]
       /\ log' = Append(log, <<w, "replace", procs[w].path>>)
       /\ UNCHANGED writersFrame

WritersNext ==
    \E w \in {1, 2} :
        \/ WMkdir(w) \/ WOpen(w) \/ WWrite(w) \/ WChmod(w) \/ WReplace(w)

SpecWriters == WritersInit /\ [][WritersNext]_vars

\* the target of call w holds what it held before, or the content of a call
\* on that target in full, with the mode asked for
WholeFile(w) ==
    \/ fs[procs[w].path] = snap.fs[procs[w].path]
    \/ \E v \in {1, 2} :
         /\ procs[v].path = procs[w].path
         /\ fs[procs[w].path] = Written(procs[v].content)

\* C20 (as claimed): when two write_file calls on the same target interleave,
\* the target always holds the prior content or one call's content in full,
\* and neither call raises.
C20_InterleavedWholeFile ==
    procs[1].path = procs[2].path =>
        \A w \in {1, 2} : WholeFile(w) /\ procs[w].pc # "failed"

\* C20 (amended): the guarantee holds for every call that shares its temporary
\* with no other: calls on different targets, and calls on the same target of
\* which one has renamed before the other opens path.tmp. A call that opens
\* the temporary while another call on the same target has it open or has not
\* yet renamed it is outside the guarantee.
C20_WholeFileUnlessTmpShared ==
    \A w \in {1, 2} :
        ~procs[w].shared => WholeFile(w) /\ procs[w].pc # "failed"

\* two calls on the same target have both ended, the second opened the
\* temporary after the first had renamed, and the target holds the second's
\* content, which differs from the first's
C20_Witness ==
    /\ procs[1].path = procs[2].path
    /\ procs[1].pc = "done" /\ procs[2].pc = "done"
    /\ ~procs[1].shared /\ ~procs[2].shared
    /\ procs[1].content # procs[2].content
    /\ fs[procs[1].path] = Written(procs[2].content)
    /\ snap = UsedHost

====
